---- MODULE Spec2Model ----
\* The interactive table widget tui.TableModel[T] (src/pkg/text/table.go, package
\* tui) in its instantiation for resources (src/unnamed/part_000), driven by the
\* Bubble Tea event loop: Init once, then Update once per delivered message.
\* Strings are sequences of one-character strings, so that lower-casing and
\* substring search are computed and not assumed.
EXTENDS Integers, Sequences, FiniteSets, TLC

\* ---------------------------------------------------------------- bounds
MaxData == 2        \* longest collection the loader returns
MaxQueryLen == 2    \* longest search buffer typed
MaxTicks == 1       \* spinner ticks delivered while loading

\* ------------------------------------------------------- program constants
CharLimit == 156    \* m.searchInput.CharLimit
NumFrames == 8      \* len(spinner.Dot.Frames)

\* ---------------------------------------------------------------- strings
Min(a, b) == IF a < b THEN a ELSE b
Max(a, b) == IF a > b THEN a ELSE b

\* unicode lower-casing of one character (strings.ToLower, per rune)
LowerRune(c) ==
  CASE c = "X" -> "x"
    [] c = "Y" -> "y"
    [] c = "W" -> "w"
    [] OTHER -> c

UpperRunes == {"X", "Y", "W"}

\* strings.ToLower
ToLower(s) == [i \in 1..Len(s) |-> LowerRune(s[i])]

\* strings.Contains
Contains(s, sub) ==
  \E i \in 0..(Len(s) - Len(sub)) : SubSeq(s, i + 1, i + Len(sub)) = sub

\* ------------------------------------------------------------------ items
\* resource.Resource values the loader can return
Res(t, n, i) == [type |-> t, project |-> <<"p">>, env |-> <<"e">>, name |-> n, id |-> i]

Items == { Res(<<"t">>, <<"X">>, <<"a">>),
           Res(<<"u">>, <<"Y">>, <<"b">>),
           Res(<<"t">>, <<"w", "y">>, <<"c">>) }

RECURSIVE SeqsUpTo(_, _)
SeqsUpTo(S, n) ==
  IF n = 0 THEN {<<>>}
  ELSE LET shorter == SeqsUpTo(S, n - 1)
       IN shorter \cup {Append(s, x) : s \in {t \in shorter : Len(t) = n - 1}, x \in S}

\* what loadFunc can return on success: resources, each listed once
LoadResults ==
  {d \in SeqsUpTo(Items, MaxData) : \A i, j \in 1..Len(d) : d[i] = d[j] => i = j}

\* formatResourceRow
formatResourceRow(r) == <<r.type, r.project, r.env, r.name, r.id>>

\* filterResource
filterResource(r, filter) ==
  LET searchFields == <<r.id, r.name, r.project, r.env, r.type>>
  IN \E i \in 1..Len(searchFields) : Contains(ToLower(searchFields[i]), filter)

\* the collaborators handed to NewTableModel by renderResources
formatFunc(x) == formatResourceRow(x)
filterFunc(x, q) == filterResource(x, q)

\* --------------------------------------------------------------- commands
Cmd(t, a) == [type |-> t, arg |-> a]
NilCmd == Cmd("nil", <<>>)
QuitCmd == Cmd("quit", <<>>)
TickCmd == Cmd("tick", <<>>)
BlinkCmd == Cmd("blink", <<>>)
LoadCmd == Cmd("load", <<>>)
BatchCmd == Cmd("batch", <<>>)
\* selectResource(ctx)(r): the handler is invoked with r and its command returned
selectFunc(x) == Cmd("select", <<x>>)
\* the custom option registered by renderResources: its key, and its function
\* resourceOptionSelectWorkspace(ctx)(r)
customOptionKey == "w"
resourceOptionSelectWorkspace(x) == Cmd("option w", <<x>>)

\* --------------------------------------------------------------- messages
Msg(t, k, d) == [type |-> t, key |-> k, data |-> d]
KeyMsg(k) == Msg("key", k, <<>>)
TickMsg == Msg("tick", "", <<>>)
OtherMsg == Msg("other", "", <<>>)
loadDataMsg(d) == Msg("loadData", "", d)
loadedErrMsg == Msg("loadedErr", "", <<>>)

\* keys whose KeyMsg carries a printable rune, and all keys pressed
Runes == {"y", "Y", "w", "/"}
Keys == {"enter", "esc", "up", "down", "backspace"} \cup Runes
\* the runes typed while the search input has the focus
TypedRunes == {"y", "Y"}

VARIABLES
  m,              \* the TableModel
  cmd,            \* the command returned by the last Init/Update
  started,        \* the runtime has called Init
  tickInFlight,   \* a spinner tick message is scheduled
  loadPending,    \* loadData commands handed to the runtime and not yet run
  loadMsg,        \* load result messages produced and not yet delivered
  loadCalls,      \* times loadFunc has been invoked
  delivered,      \* load result messages delivered to Update, in order
  quitInFlight,   \* tea.Quit was returned and its message is not yet processed
  terminated,     \* the event loop has exited
  setRowsClamps   \* whether the table library's SetRows pulls the cursor into range

vars == <<m, cmd, started, tickInFlight, loadPending, loadMsg, loadCalls,
          delivered, quitInFlight, terminated, setRowsClamps>>

\* ------------------------------------------------ bubbles/table (library)
\* table.New(WithColumns, WithFocused(true), WithHeight(10)) in initTable
table_New == [rows |-> <<>>, cursor |-> 0, focus |-> TRUE]

clamp(v, low, high) == Min(Max(v, low), high)

\* m.table.SetRows(rows)
table_SetRows(t, r) ==
  IF setRowsClamps /\ t.cursor > Len(r) - 1
  THEN [t EXCEPT !.rows = r, !.cursor = Len(r) - 1]
  ELSE [t EXCEPT !.rows = r]

\* m.table.SelectedRow(): nil when the cursor is on no row
table_SelectedRow(t) ==
  IF t.cursor < 0 \/ t.cursor >= Len(t.rows) THEN <<>> ELSE t.rows[t.cursor + 1]

\* m.table.Update(msg): a blurred table ignores keys; up and down move by one
table_Update(t, msg) ==
  IF ~t.focus \/ msg.type # "key" THEN t
  ELSE CASE msg.key = "up" -> [t EXCEPT !.cursor = clamp(t.cursor - 1, 0, Len(t.rows) - 1)]
         [] msg.key = "down" -> [t EXCEPT !.cursor = clamp(t.cursor + 1, 0, Len(t.rows) - 1)]
         [] OTHER -> t

\* -------------------------------------------- bubbles/textinput (library)
\* textinput.New() in initSearchInput: empty and blurred
textinput_New == [value |-> <<>>, focus |-> FALSE]

\* m.searchInput.Update(msg): the buffer after the key, and the blink command
\* the input returns when its cursor moved (the cursor stays at the end)
textinput_Update(ti, msg) ==
  LET v == ti.value
      nv == IF ~ti.focus \/ msg.type # "key" THEN v
            ELSE IF msg.key = "backspace" THEN SubSeq(v, 1, Max(Len(v) - 1, 0))
            ELSE IF msg.key \in Runes /\ Len(v) < CharLimit THEN Append(v, msg.key)
            ELSE v
  IN [model |-> [ti EXCEPT !.value = nv],
      cmd |-> IF nv # v THEN BlinkCmd ELSE NilCmd]

\* ---------------------------------------------- bubbles/spinner (library)
\* spinner.New() in initSpinner
spinner_New == [frame |-> 0]

\* m.spinner.Update(msg): a tick advances the frame and schedules the next tick
spinner_Update(s, msg) ==
  IF msg.type = "tick"
  THEN [model |-> [s EXCEPT !.frame = (s.frame + 1) % NumFrames], cmd |-> TickCmd]
  ELSE [model |-> s, cmd |-> NilCmd]

\* ----------------------------------------------------------- TableModel
Ret(mm, c) == [m |-> mm, cmd |-> c]

NewTableModel ==
  [loading |-> TRUE, data |-> <<>>, filteredData |-> <<>>,
   table |-> table_New, spinner |-> spinner_New, searchInput |-> textinput_New,
   searching |-> FALSE, currentFilter |-> <<>>]

\* (m *TableModel[T]) Init
Init_(mm) == BatchCmd

updateTableRows(mm) ==
  LET rows == [i \in 1..Len(mm.filteredData) |-> formatFunc(mm.filteredData[i])]
  IN [mm EXCEPT !.table = table_SetRows(mm.table, rows)]

\* setTableData that forgets to leave the loading state
setTableData_KeepLoading(mm, msg) ==
  updateTableRows([mm EXCEPT !.data = msg.data, !.filteredData = msg.data])

setTableData(mm, msg) ==
  LET m1 == [mm EXCEPT !.data = msg.data, !.filteredData = msg.data]
      m2 == updateTableRows(m1)
  IN [m2 EXCEPT !.loading = FALSE]

\* the query handed on as typed, not lower-cased
filterArg_Raw(query) == query

\* the query handed to filterFunc at each call in filterData
filterArg(query) == ToLower(query)

RECURSIVE filterLoop(_, _, _)
filterLoop(data, query, filtered) ==
  IF data = <<>> THEN filtered
  ELSE filterLoop(Tail(data), query,
                  IF filterFunc(Head(data), filterArg(query))
                  THEN Append(filtered, Head(data)) ELSE filtered)

filterData(mm, query) ==
  IF query = <<>> THEN mm.data ELSE filterLoop(mm.data, query, <<>>)

\* selection that returns on the first item, whatever the highlighted row
selectCurrentRow_First(mm) ==
  IF Len(table_SelectedRow(mm.table)) > 0 /\ mm.filteredData # <<>>
  THEN selectFunc(mm.filteredData[1])
  ELSE NilCmd

\* selection that treats "no row highlighted" as an error and quits
selectCurrentRow_QuitOnNone(mm) ==
  LET sel == table_SelectedRow(mm.table)
      fd == mm.filteredData
      hits == {i \in 1..Len(fd) : formatFunc(fd[i])[1] = sel[1]}
  IN IF Len(sel) > 0 /\ hits # {}
     THEN selectFunc(fd[CHOOSE i \in hits : \A j \in hits : i <= j])
     ELSE QuitCmd

\* selection by the cursor's index into filteredData
selectCurrentRow_ByIndex(mm) ==
  IF Len(table_SelectedRow(mm.table)) > 0 /\ mm.table.cursor < Len(mm.filteredData)
  THEN selectFunc(mm.filteredData[mm.table.cursor + 1])
  ELSE NilCmd

selectCurrentRow(mm) ==
  LET sel == table_SelectedRow(mm.table)
      fd == mm.filteredData
      hits == {i \in 1..Len(fd) : formatFunc(fd[i])[1] = sel[1]}
  IN IF Len(sel) > 0 /\ hits # {}
     THEN selectFunc(fd[CHOOSE i \in hits : \A j \in hits : i <= j])
     ELSE NilCmd

\* handleEsc that restores filteredData and leaves the old rows in the table
handleEsc_StaleRows(mm) ==
  IF mm.searching
  THEN Ret([mm EXCEPT !.searching = FALSE,
                      !.searchInput.focus = FALSE,
                      !.currentFilter = <<>>,
                      !.filteredData = mm.data], NilCmd)
  ELSE Ret([mm EXCEPT !.table.focus = ~mm.table.focus], NilCmd)

\* handleEsc that blurs the table when not searching and never focuses it again
handleEsc_BlurOnly(mm) ==
  IF mm.searching
  THEN Ret(updateTableRows([mm EXCEPT !.searching = FALSE,
                                      !.searchInput.focus = FALSE,
                                      !.currentFilter = <<>>,
                                      !.filteredData = mm.data]), NilCmd)
  ELSE Ret([mm EXCEPT !.table.focus = FALSE], NilCmd)

handleEsc(mm) ==
  IF mm.searching
  THEN Ret(updateTableRows([mm EXCEPT !.searching = FALSE,
                                      !.searchInput.focus = FALSE,
                                      !.currentFilter = <<>>,
                                      !.filteredData = mm.data]), NilCmd)
  ELSE Ret([mm EXCEPT !.table.focus = ~mm.table.focus], NilCmd)

handleSlash(mm) ==
  IF ~mm.searching
  THEN Ret([mm EXCEPT !.searching = TRUE, !.searchInput.focus = TRUE], BlinkCmd)
  ELSE Ret(mm, NilCmd)

\* handleEnter that dispatches the selection and stays in search mode
handleEnter_StaysSearching(mm) == Ret(mm, selectCurrentRow(mm))

\* handleEnter that drops the filter when it leaves search mode, as esc does
handleEnter_ClearsFilter(mm) ==
  LET m1 == IF mm.searching
            THEN updateTableRows([mm EXCEPT !.searching = FALSE,
                                            !.searchInput.focus = FALSE,
                                            !.currentFilter = <<>>,
                                            !.filteredData = mm.data])
            ELSE mm
  IN Ret(m1, selectCurrentRow(m1))

handleEnter(mm) ==
  LET m1 == IF mm.searching
            THEN [mm EXCEPT !.searching = FALSE, !.searchInput.focus = FALSE]
            ELSE mm
  IN Ret(m1, selectCurrentRow(m1))

\* updateSearching that filters on the buffer as it was before the key
updateSearching_OldBuffer(mm, msg) ==
  LET r == textinput_Update(mm.searchInput, msg)
      m1 == [mm EXCEPT !.searchInput = r.model]
  IN CASE msg.key = "enter" -> handleEnter(m1)
       [] msg.key = "esc" -> handleEsc(m1)
       [] msg.key \in {"up", "down"} ->
            Ret([m1 EXCEPT !.table = table_Update(m1.table, msg)], NilCmd)
       [] OTHER ->
            LET m2 == [m1 EXCEPT !.currentFilter = mm.searchInput.value]
                m3 == [m2 EXCEPT !.filteredData = filterData(m2, m2.currentFilter)]
            IN Ret(updateTableRows(m3), r.cmd)

\* updateSearching without the up/down case: the keys fall to the default branch
updateSearching_NoUpDown(mm, msg) ==
  LET r == textinput_Update(mm.searchInput, msg)
      m1 == [mm EXCEPT !.searchInput = r.model]
  IN CASE msg.key = "enter" -> handleEnter(m1)
       [] msg.key = "esc" -> handleEsc(m1)
       [] OTHER ->
            LET m2 == [m1 EXCEPT !.currentFilter = m1.searchInput.value]
                m3 == [m2 EXCEPT !.filteredData = filterData(m2, m2.currentFilter)]
            IN Ret(updateTableRows(m3), r.cmd)

\* updateSearching that narrows data itself, not only filteredData
updateSearching_FiltersData(mm, msg) ==
  LET r == textinput_Update(mm.searchInput, msg)
      m1 == [mm EXCEPT !.searchInput = r.model]
  IN CASE msg.key = "enter" -> handleEnter(m1)
       [] msg.key = "esc" -> handleEsc(m1)
       [] msg.key \in {"up", "down"} ->
            Ret([m1 EXCEPT !.table = table_Update(m1.table, msg)], NilCmd)
       [] OTHER ->
            LET m2 == [m1 EXCEPT !.currentFilter = m1.searchInput.value]
                m3 == [m2 EXCEPT !.filteredData = filterData(m2, m2.currentFilter),
                                 !.data = filterData(m2, m2.currentFilter)]
            IN Ret(updateTableRows(m3), r.cmd)

updateSearching(mm, msg) ==
  LET r == textinput_Update(mm.searchInput, msg)
      m1 == [mm EXCEPT !.searchInput = r.model]
  IN CASE msg.key = "enter" -> handleEnter(m1)
       [] msg.key = "esc" -> handleEsc(m1)
       [] msg.key \in {"up", "down"} ->
            Ret([m1 EXCEPT !.table = table_Update(m1.table, msg)], NilCmd)
       [] OTHER ->
            LET m2 == [m1 EXCEPT !.currentFilter = m1.searchInput.value]
                m3 == [m2 EXCEPT !.filteredData = filterData(m2, m2.currentFilter)]
            IN Ret(updateTableRows(m3), r.cmd)

handleKeyMsg(mm, msg) ==
  CASE msg.key = "esc" -> handleEsc(mm)
    [] msg.key = "/" -> handleSlash(mm)
    [] msg.key = "enter" -> handleEnter(mm)
    [] msg.key \in {"up", "down"} ->
         Ret([mm EXCEPT !.table = table_Update(mm.table, msg)], NilCmd)
    [] OTHER -> Ret(mm, NilCmd)

\* updateComponents that keeps feeding the spinner after the load
updateComponents_AlwaysSpinner(mm, msg) ==
  LET r == spinner_Update(mm.spinner, msg)
  IN Ret([mm EXCEPT !.spinner = r.model], r.cmd)

updateComponents(mm, msg) ==
  IF mm.loading
  THEN LET r == spinner_Update(mm.spinner, msg)
       IN Ret([mm EXCEPT !.spinner = r.model], r.cmd)
  ELSE Ret([mm EXCEPT !.table = table_Update(mm.table, msg)], NilCmd)

\* a load failure that starts the loader again instead of quitting
updateLoadedErr_Retry(mm) == Ret(mm, LoadCmd)

\* a load failure that quits and leaves the widget loading
updateLoadedErr_KeepsLoading(mm) == Ret(mm, QuitCmd)

\* the loadedErrMsg case of Update
updateLoadedErr(mm) == Ret([mm EXCEPT !.loading = FALSE], QuitCmd)

Update(mm, msg) ==
  CASE msg.type = "loadData" -> Ret(setTableData(mm, msg), NilCmd)
    [] msg.type = "loadedErr" -> updateLoadedErr(mm)
    [] msg.type = "key" ->
         IF mm.searching THEN updateSearching(mm, msg) ELSE handleKeyMsg(mm, msg)
    [] OTHER -> updateComponents(mm, msg)

\* which branch View renders, and the rows it shows
View(mm) ==
  IF mm.loading THEN <<"spinner">>
  ELSE IF mm.searching THEN <<"table", "search">>
  ELSE <<"table", "actions">>

\* ------------------------------------------------------------ event loop
NoMsg == <<>>

Init ==
  /\ m = NewTableModel
  /\ cmd = NilCmd
  /\ started = FALSE
  /\ tickInFlight = FALSE
  /\ loadPending = 0
  /\ loadMsg = NoMsg
  /\ loadCalls = 0
  /\ delivered = <<>>
  /\ quitInFlight = FALSE
  /\ terminated = FALSE
  /\ setRowsClamps \in BOOLEAN

\* the runtime calls Init and starts the two commands of its batch
Start ==
  /\ ~started
  /\ started' = TRUE
  /\ cmd' = Init_(m)
  /\ tickInFlight' = TRUE
  /\ loadPending' = loadPending + 1
  /\ UNCHANGED <<m, loadMsg, loadCalls, delivered, quitInFlight, terminated, setRowsClamps>>

\* loadData runs off the event loop: it calls loadFunc and wraps the result
loadData ==
  /\ loadPending > 0
  /\ ~terminated
  /\ \E result \in {loadDataMsg(d) : d \in LoadResults} \cup {loadedErrMsg} :
       loadMsg' = Append(loadMsg, result)
  /\ loadCalls' = loadCalls + 1
  /\ loadPending' = loadPending - 1
  /\ UNCHANGED <<m, cmd, started, tickInFlight, delivered, quitInFlight, terminated, setRowsClamps>>

\* one iteration of the event loop: Update(msg), then the returned command is started
Step(msg) ==
  \E r \in {Update(m, msg)} :
     /\ m' = r.m
     /\ cmd' = r.cmd
     /\ quitInFlight' = (quitInFlight \/ r.cmd.type = "quit")
     /\ loadPending' = loadPending + (IF r.cmd.type = "load" THEN 1 ELSE 0)
     /\ tickInFlight' = IF msg.type = "tick" THEN r.cmd.type = "tick"
                        ELSE (tickInFlight \/ r.cmd.type = "tick")
     /\ UNCHANGED <<started, loadCalls, terminated, setRowsClamps>>

DeliverLoad ==
  /\ ~terminated
  /\ loadMsg # NoMsg
  /\ Step(Head(loadMsg))
  /\ loadMsg' = Tail(loadMsg)
  /\ delivered' = Append(delivered, Head(loadMsg).type)

DeliverKey ==
  /\ started /\ ~terminated
  /\ \E k \in Keys :
       /\ (m.searching /\ k \in Runes) =>
            (k \in TypedRunes /\ Len(m.searchInput.value) < MaxQueryLen)
       /\ Step(KeyMsg(k))
  /\ UNCHANGED <<loadMsg, delivered>>

DeliverTick ==
  /\ tickInFlight /\ ~terminated
  /\ m.loading => m.spinner.frame < MaxTicks
  /\ Step(TickMsg)
  /\ UNCHANGED <<loadMsg, delivered>>

\* any other message (window size, cursor blink): it reaches updateComponents
DeliverOther ==
  /\ started /\ ~terminated
  /\ Step(OtherMsg)
  /\ UNCHANGED <<loadMsg, delivered>>

\* the quit message is processed and the event loop exits
Quit ==
  /\ quitInFlight /\ ~terminated
  /\ terminated' = TRUE
  /\ quitInFlight' = FALSE
  /\ UNCHANGED <<m, cmd, started, tickInFlight, loadPending, loadMsg, loadCalls,
                 delivered, setRowsClamps>>

Next ==
  \/ Start
  \/ loadData
  \/ DeliverLoad
  \/ DeliverKey
  \/ DeliverTick
  \/ DeliverOther
  \/ Quit

Spec == Init /\ [][Next]_vars

\* the runtime calls Init, the loader returns, and its result is delivered
FairSpec == Spec /\ WF_vars(Start) /\ WF_vars(loadData) /\ WF_vars(DeliverLoad)

\* ------------------------------------------------- filterData on its own
\* a widget whose load has been delivered and whose search has been opened,
\* for every collection the loader can return
FilterInit ==
  /\ setRowsClamps \in BOOLEAN
  /\ \E d \in LoadResults :
       m = handleSlash(setTableData(NewTableModel, loadDataMsg(d))).m
  /\ cmd = BlinkCmd
  /\ started = TRUE
  /\ tickInFlight = TRUE
  /\ loadPending = 0
  /\ loadMsg = NoMsg
  /\ loadCalls = 1
  /\ delivered = <<"loadData">>
  /\ quitInFlight = FALSE
  /\ terminated = FALSE

\* the default branch of updateSearching with the buffer holding query
ApplyFilter ==
  /\ \E query \in SeqsUpTo(Runes, MaxQueryLen) :
       m' = updateTableRows([m EXCEPT !.searchInput.value = query,
                                      !.currentFilter = query,
                                      !.filteredData = filterData(m, query)])
  /\ UNCHANGED <<cmd, started, tickInFlight, loadPending, loadMsg, loadCalls,
                 delivered, quitInFlight, terminated, setRowsClamps>>

SpecFilter == FilterInit /\ [][ApplyFilter]_vars

\* ================================================================ claims
\* the subsequence of data the filter keeps for query q, stated directly
Kept(data, q) ==
  LET keep(x) == filterFunc(x, ToLower(q))
  IN IF q = <<>> THEN data ELSE SelectSeq(data, keep)

\* the queries filterData is tried on
Queries == SeqsUpTo(Runes, MaxQueryLen)

HasUpper(q) == \E i \in 1..Len(q) : q[i] \in UpperRunes

DistinctFirstCells(fd) ==
  \A i, j \in 1..Len(fd) : formatFunc(fd[i])[1] = formatFunc(fd[j])[1] => i = j

\* the step from the current state to the next is the press of key k
KeyPressed(k) ==
  /\ \E r \in {Update(m, KeyMsg(k))} : m' = r.m /\ cmd' = r.cmd
  /\ UNCHANGED <<tickInFlight, loadMsg, delivered, terminated>>

LoadFailed == \E i \in 1..Len(delivered) : delivered[i] = "loadedErr"

\* C1: in every reachable state filteredData is exactly the items of data, in
\* order, that filterFunc accepts for lowercase(currentFilter), and all of data
\* when currentFilter is empty.
C1_FilteredDataFollowsFilter == m.filteredData = Kept(m.data, m.currentFilter)

\* C2: for the data held and every query q, filterData(q) is data itself when q
\* is empty and otherwise exactly the items accepted for lowercase(q), each once
\* and in data's order; the query handed to the predicate has no upper-case
\* character.
C2_FilterData ==
  /\ m.filteredData = filterData(m, m.currentFilter)
  /\ \A q \in Queries :
       /\ filterData(m, q) = Kept(m.data, q)
       /\ ~HasUpper(filterArg(q))

C2_Witness ==
  /\ m.searching /\ ~m.loading
  /\ HasUpper(m.currentFilter)
  /\ m.filteredData # <<>>
  /\ Len(m.filteredData) < Len(m.data)
  /\ m.filteredData = Kept(m.data, m.currentFilter)

\* C3: whenever loading is true, data and filteredData are both empty, also
\* when '/' and printable keys were pressed while the load is in flight.
C3_LoadingMeansNoData == m.loading => (m.data = <<>> /\ m.filteredData = <<>>)

C3_Witness ==
  /\ m.loading /\ m.searching
  /\ m.currentFilter # <<>>
  /\ loadMsg # NoMsg

\* C4: loading and searching are never both true.
C4_LoadingAndSearchingExclusive == ~(m.loading /\ m.searching)

\* C5: 'esc' pressed in Searching leaves the widget not searching, with
\* filteredData equal to data, currentFilter empty and the search input's
\* buffer empty.
C5_EscClearsSearch ==
  [][(m.searching /\ ~m.loading /\ KeyPressed("esc")) =>
       /\ ~m'.searching
       /\ m'.filteredData = m'.data
       /\ m'.currentFilter = <<>>
       /\ m'.searchInput.value = <<>>]_vars

\* C6: when the first formatted cells of filteredData are pairwise distinct and
\* the cursor is on displayed row i, 'enter' invokes the selection handler once,
\* with filteredData[i], whose formatted row is the displayed row i.
C6_EnterSelectsRowAtCursor ==
  LET fd == m.filteredData
      i == m.table.cursor + 1
  IN (DistinctFirstCells(fd) /\ i \in 1..Len(m.table.rows)) =>
       /\ i <= Len(fd)
       /\ formatFunc(fd[i]) = m.table.rows[i]
       /\ Update(m, KeyMsg("enter")).cmd = selectFunc(fd[i])

C6_Witness ==
  /\ cmd.type = "select"
  /\ DistinctFirstCells(m.filteredData)
  /\ m.table.cursor >= 1
  /\ m.table.cursor < Len(m.filteredData)
  /\ cmd.arg = <<m.filteredData[m.table.cursor + 1]>>

\* C7: once the load-failure message has been delivered, quit has been
\* requested and the view is never the table branch.
C7_FailureQuitsWithoutTable ==
  LoadFailed => ((quitInFlight \/ terminated) /\ View(m)[1] # "table")

\* C8: pressing the key of a registered custom option while Browsing invokes
\* that option's function with the highlighted item.
C8_CustomOptionInvoked ==
  [][(/\ ~m.loading /\ ~m.searching
      /\ table_SelectedRow(m.table) # <<>>
      /\ KeyPressed(customOptionKey)) =>
       cmd' = resourceOptionSelectWorkspace(m.filteredData[m.table.cursor + 1])]_vars

\* C9: the loader is invoked once, at start, and at most one load result is
\* ever delivered to Update; no message causes another invocation.
C9_LoaderInvokedOnce ==
  /\ loadCalls + loadPending = (IF started THEN 1 ELSE 0)
  /\ Len(loadMsg) + Len(delivered) = loadCalls
  /\ (~m.loading => Len(delivered) = 1)

C9_Witness ==
  /\ loadCalls = 1
  /\ delivered = <<"loadData">>
  /\ ~tickInFlight
  /\ m.currentFilter # <<>>
  /\ ~m.searching

\* C10: in every reachable state the table's rows are the formatter applied to
\* each item of filteredData, same length and order.
C10_RowsAreFormattedFilteredData ==
  /\ Len(m.table.rows) = Len(m.filteredData)
  /\ \A i \in 1..Len(m.filteredData) :
       m.table.rows[i] = formatResourceRow(m.filteredData[i])

C10_Witness ==
  /\ ~m.loading /\ ~m.searching
  /\ m.searchInput.value # <<>>
  /\ m.currentFilter = <<>>
  /\ Len(m.table.rows) = 2

\* the keys updateSearching handles in its default branch
EditKeys == Keys \ {"enter", "esc", "up", "down"}

\* the two resources of the scenario: {id a, name X} and {id b, name Y}
ItemAX == Res(<<"t">>, <<"X">>, <<"a">>)
ItemBY == Res(<<"u">>, <<"Y">>, <<"b">>)

\* C11: in Searching, after every key other than enter, esc, up and down,
\* currentFilter equals the search buffer after that key (a rune appended,
\* backspace dropping the last one) and filteredData is the filter of the full
\* data for that buffer; with [{a,X},{b,Y}] loaded and an empty buffer, "y"
\* gives [{b,Y}].
C11_SearchKeyRefilters ==
  m.searching =>
    /\ \A k \in EditKeys :
         LET old == m.searchInput.value
             r == Update(m, KeyMsg(k)).m
         IN /\ r.searching
            /\ r.searchInput.value =
                 (IF k = "backspace" THEN SubSeq(old, 1, Len(old) - 1) ELSE Append(old, k))
            /\ r.currentFilter = r.searchInput.value
            /\ r.data = m.data
            /\ r.filteredData = Kept(m.data, r.currentFilter)
    /\ (m.data = <<ItemAX, ItemBY>> /\ m.searchInput.value = <<>>) =>
         Update(m, KeyMsg("y")).m.filteredData = <<ItemBY>>

C11_Witness ==
  /\ m.searching /\ ~m.loading
  /\ m.data = <<ItemAX, ItemBY>>
  /\ m.searchInput.value = <<"y">>
  /\ m.currentFilter = <<"y">>
  /\ m.filteredData = <<ItemBY>>

\* C12: 'enter' leaves searching false (from Searching the widget is in
\* Browsing afterwards, from Browsing it stays there), changes nothing else but
\* the search input's focus, and when a row is highlighted returns the
\* selection handler's command for an item of filteredData shown in that row.
C12_EnterLeavesSearchAndSelects ==
  LET r == Update(m, KeyMsg("enter"))
      sel == table_SelectedRow(m.table)
      fd == m.filteredData
  IN /\ ~r.m.searching
     /\ ~m.loading => ~r.m.loading
     /\ r.m = [m EXCEPT !.searching = FALSE, !.searchInput.focus = FALSE]
     /\ sel # <<>> =>
          /\ r.cmd.type = "select"
          /\ \E j \in 1..Len(fd) :
               r.cmd.arg = <<fd[j]>> /\ formatFunc(fd[j])[1] = sel[1]

C12_Witness ==
  /\ ~m.searching /\ ~m.loading
  /\ m.currentFilter # <<>>
  /\ ~m.searchInput.focus
  /\ Len(m.filteredData) < Len(m.data)
  /\ cmd.type = "select"
  /\ cmd.arg = <<m.filteredData[m.table.cursor + 1]>>

\* C13: 'enter' with no row highlighted (the filtered set is empty: empty table,
\* search matching nothing, load not completed; or the cursor is on no row)
\* invokes no selection handler and returns no command: no quit, no error.
C13_EnterWithoutRowDoesNothing ==
  (m.filteredData = <<>> \/ table_SelectedRow(m.table) = <<>>) =>
    LET r == Update(m, KeyMsg("enter"))
    IN /\ r.cmd = NilCmd
       /\ r.m.loading = m.loading
       /\ r.m.data = m.data /\ r.m.filteredData = m.filteredData

C13_Witness ==
  /\ ~m.loading /\ ~m.searching
  /\ m.data # <<>> /\ m.filteredData = <<>>
  /\ m.currentFilter # <<>>
  /\ cmd = NilCmd
  /\ ~quitInFlight /\ ~terminated

\* item j of fd shows the same first cell as item i
SameFirstCell(fd, i, j) == formatFunc(fd[i])[1] = formatFunc(fd[j])[1]

\* C14: when several items of filteredData share the first formatted cell of
\* the highlighted row, 'enter' invokes the selection handler with the first
\* of them in filteredData order, whichever of those rows the cursor is on.
C14_DuplicateFirstCellSelectsFirst ==
  LET fd == m.filteredData
      i == m.table.cursor + 1
  IN (/\ i \in 1..Len(m.table.rows)
      /\ \E j \in 1..Len(fd) : j # i /\ SameFirstCell(fd, i, j)) =>
       \E j \in 1..i :
         /\ SameFirstCell(fd, i, j)
         /\ \A k \in 1..(j - 1) : ~SameFirstCell(fd, i, k)
         /\ Update(m, KeyMsg("enter")).cmd = selectFunc(fd[j])

C14_Witness ==
  /\ Len(m.filteredData) = 2
  /\ m.table.cursor = 1
  /\ SameFirstCell(m.filteredData, 1, 2)
  /\ m.filteredData[1] # m.filteredData[2]
  /\ cmd = selectFunc(m.filteredData[1])

\* the cursor is on one of the table's rows
OnRow(t) == t.cursor \in 0..(Len(t.rows) - 1)

\* C15: 'up' and 'down' in Searching keep the widget searching and leave the
\* search buffer, currentFilter, data, filteredData and the rows unchanged; only
\* the cursor may change: a focused table moves it by one where a row is there
\* and puts it on a row whenever there are rows, a blurred one leaves it, so a
\* cursor on a filtered row stays on a filtered row.
C15_UpDownInSearchMovesOnlyCursor ==
  m.searching =>
    \A k \in {"up", "down"} :
      LET r == Update(m, KeyMsg(k))
          t == m.table
          c == r.m.table.cursor
      IN /\ r.m = [m EXCEPT !.table.cursor = c]
         /\ r.m.searching
         /\ OnRow(t) => OnRow(r.m.table)
         /\ (t.focus /\ t.rows # <<>>) => OnRow(r.m.table)
         /\ ~t.focus => c = t.cursor
         /\ (t.focus /\ OnRow(t) /\ k = "down" /\ t.cursor + 1 < Len(t.rows)) => c = t.cursor + 1
         /\ (t.focus /\ OnRow(t) /\ k = "up" /\ t.cursor > 0) => c = t.cursor - 1

C15_Witness ==
  /\ m.searching /\ ~m.loading
  /\ m.currentFilter # <<>>
  /\ Len(m.filteredData) = 2
  /\ m.table.cursor = 1
  /\ m.table.focus
  /\ cmd = NilCmd

\* C16: 'esc' in Browsing toggles the table's focus and changes nothing else
\* (searching stays false; currentFilter, data and filteredData keep their
\* values; no command), so two 'esc' in a row restore the state.
C16_EscInBrowsingTogglesFocus ==
  ~m.searching =>
    LET r1 == Update(m, KeyMsg("esc"))
        r2 == Update(r1.m, KeyMsg("esc"))
    IN /\ r1.m = [m EXCEPT !.table.focus = ~m.table.focus]
       /\ r1.m.table.focus # m.table.focus
       /\ r1.cmd = NilCmd
       /\ r2.m = m
       /\ r2.cmd = NilCmd

C16_Witness ==
  /\ ~m.searching /\ ~m.loading
  /\ ~m.table.focus
  /\ m.data # <<>>
  /\ m.filteredData = m.data
  /\ cmd = NilCmd

\* what Update does with a spinner tick in the current state
TickHandled ==
  LET r == Update(m, TickMsg)
  IN IF m.loading
     THEN /\ r.m = [m EXCEPT !.spinner.frame = (m.spinner.frame + 1) % NumFrames]
          /\ r.m.spinner # m.spinner
          /\ r.m.loading
          /\ r.cmd = TickCmd
     ELSE /\ r.m = m
          /\ r.cmd = NilCmd

\* C17: a tick received while loading advances the spinner, keeps the widget
\* loading and schedules the next tick; once loading is false a tick leaves the
\* spinner alone and schedules nothing, so no step changes the spinner or puts
\* a new tick in flight: the animation stops with the tick already in flight.
C17_TicksOnlyWhileLoading ==
  /\ []TickHandled
  /\ [][~m.loading => (m'.spinner = m.spinner /\ (tickInFlight' => tickInFlight))]_vars

C17_Witness ==
  /\ ~m.loading
  /\ delivered = <<"loadData">>
  /\ m.spinner.frame = 1
  /\ ~tickInFlight

\* C18: once the load has succeeded no step (key press, tick or other message)
\* changes data, in contents or order; filtering replaces filteredData only.
C18_DataFixedAfterLoad ==
  [][delivered = <<"loadData">> => m'.data = m.data]_vars

C18_Witness ==
  /\ delivered = <<"loadData">>
  /\ ~m.loading /\ m.searching
  /\ Len(m.data) = 2
  /\ Len(m.filteredData) = 1
  /\ m.filteredData[1] = m.data[2]
  /\ ~tickInFlight

\* key k leaves the filter, the filtered set and the rows shown as they are
KeepsFilter(k) ==
  LET r == Update(m, KeyMsg(k)).m
  IN /\ r.currentFilter = m.currentFilter
     /\ r.filteredData = m.filteredData
     /\ r.table.rows = m.table.rows

\* C19: 'enter' in Searching leaves currentFilter and filteredData as they
\* were, and in Browsing no key (esc, enter, up, down, '/', any other) changes
\* them or the rows shown; only '/' leaves Browsing.
C19_FilterKeptAfterEnter ==
  /\ m.searching => KeepsFilter("enter")
  /\ ~m.searching =>
       \A k \in Keys :
         /\ KeepsFilter(k)
         /\ k # "/" => ~Update(m, KeyMsg(k)).m.searching

C19_Witness ==
  /\ ~m.searching /\ ~m.loading
  /\ m.currentFilter # <<>>
  /\ m.filteredData # <<>>
  /\ Len(m.filteredData) < Len(m.data)
  /\ Len(m.table.rows) = Len(m.filteredData)
  /\ ~m.table.focus
  /\ cmd = NilCmd

\* C20: loading is true initially and only while no load result has been
\* delivered, is false after the step that delivers the first result (success
\* or failure), never becomes true again, and, the loader returning and its
\* message being delivered, eventually is false.
C20_LoadingEndsOnceAndForAll ==
  /\ m.loading
  /\ [](m.loading <=> delivered = <<>>)
  /\ [][delivered' # delivered => ~m'.loading]_vars
  /\ [][~m.loading => ~m'.loading]_vars
  /\ <>(~m.loading)

C20_Witness ==
  /\ ~m.loading
  /\ Len(delivered) = 1
  /\ m.searching
  /\ m.searchInput.value # <<>>
  /\ ~tickInFlight

====
